---------------------------- MODULE Spec2Model ----------------------------
(* The scanner of loxide (src/main.rs): Tokenizer::tokenize as a state      *)
(* machine over one source text.  A character is a one-character string;   *)
(* the script is a sequence of characters.  pos is the number of           *)
(* characters the Peekable<Enumerate<Chars>> iterator has yielded, so the   *)
(* character under the cursor is script[pos + 1] and its enumerate index   *)
(* is pos.  One action is one iteration of the main loop (lines 67-198),    *)
(* the trailing iter.next() of line 197 included.                           *)
EXTENDS Integers, Sequences, FiniteSets, TLC

VARIABLES script, pos, line, tokens, pc, err, ret

vars == <<script, pos, line, tokens, pc, err, ret>>

(* ------------------------------ bounds -------------------------------- *)
\* longest script drawn from the core alphabet
MaxLen == 4

\* longest script drawn from the whole alphabet
MaxFullLen == 2

\* longest script drawn from the core alphabet for the termination check
MaxLiveLen == 3

(* ---------------------------- characters ------------------------------ *)
PunctChars == {"(", ")", "{", "}", ",", ";", ".", "-", "+", "*"}

OpChars == {"!", "=", ">", "<"}

BlankChars == {" ", "\r", "\t"}

DigitChars == {"0", "1", "2", "3", "4", "5", "6", "7", "8", "9"}

\* characters whose UTF-8 encoding has two bytes
WideChars == {"U+00E9"}

Alphabet ==
    PunctChars \cup OpChars \cup BlankChars
        \cup {"/", "\"", "\n", "0", "1", "a", "_", "@", "U+00E9"}

\* one character of every class the match tells apart
CoreAlphabet == {"(", ".", "!", "=", "/", "\"", " ", "\n", "1", "U+00E9"}

\* char::is_ascii_digit
IsAsciiDigit(c) == c \in DigitChars

\* char::len_utf8
LenUtf8(c) == IF c \in WideChars THEN 2 ELSE 1

(* ------------------------------ tokens -------------------------------- *)
\* a token is its variant and its payload (empty but for String, Number)
Tok(t) == [type |-> t, payload |-> <<>>]

TokString(text) == [type |-> "String", payload |-> text]

TokNumber(v) == [type |-> "Number", payload |-> v]

TokenTypes ==
    {"LeftParen", "RightParen", "LeftBrace", "RightBrace", "Comma", "Dot",
     "Minus", "Plus", "Semicolon", "Slash", "Star", "Bang", "BangEqual",
     "Equal", "EqualEqual", "Greater", "GreaterEqual", "Less", "LessEqual",
     "Identifier", "String", "Number", "And", "Class", "Else", "False",
     "Fun", "For", "If", "Nil", "Or", "Print", "Return", "Super", "This",
     "True", "Var", "While", "Eof"}

PunctTokenSwapped(c) ==
    CASE c = "(" -> "RightParen"
      [] c = ")" -> "LeftParen"
      [] c = "{" -> "LeftBrace"
      [] c = "}" -> "RightBrace"
      [] c = "," -> "Comma"
      [] c = ";" -> "Semicolon"
      [] c = "." -> "Dot"
      [] c = "-" -> "Minus"
      [] c = "+" -> "Plus"
      [] c = "*" -> "Star"

\* the match arms of the single-character punctuation
PunctToken(c) ==
    CASE c = "(" -> "LeftParen"
      [] c = ")" -> "RightParen"
      [] c = "{" -> "LeftBrace"
      [] c = "}" -> "RightBrace"
      [] c = "," -> "Comma"
      [] c = ";" -> "Semicolon"
      [] c = "." -> "Dot"
      [] c = "-" -> "Minus"
      [] c = "+" -> "Plus"
      [] c = "*" -> "Star"

\* the token of an operator character that is not followed by `=`
OneCharToken(c) ==
    CASE c = "!" -> "Bang"
      [] c = "=" -> "Equal"
      [] c = ">" -> "Greater"
      [] c = "<" -> "Less"

TwoCharTokenPlain(c) == OneCharToken(c)

\* the token of an operator character that is followed by `=`
TwoCharToken(c) ==
    CASE c = "!" -> "BangEqual"
      [] c = "=" -> "EqualEqual"
      [] c = ">" -> "GreaterEqual"
      [] c = "<" -> "LessEqual"

(* --------------------------- the iterator ----------------------------- *)
IterNextStuck(s, p) == p

\* iter.next(): yields the next character if there is one
IterNext(s, p) == IF p < Len(s) THEN p + 1 ELSE p

\* take_while(|c| c != '"').count() on a clone of the iterator at p
RECURSIVE StringRunLen(_, _)
StringRunLen(s, p) ==
    IF p < Len(s) /\ s[p + 1] # "\"" THEN 1 + StringRunLen(s, p + 1) ELSE 0

\* take_while(|c| c.is_ascii_digit() || c == '.').count() on a clone at p
RECURSIVE NumberRunLen(_, _)
NumberRunLen(s, p) ==
    IF p < Len(s) /\ (IsAsciiDigit(s[p + 1]) \/ s[p + 1] = ".")
    THEN 1 + NumberRunLen(s, p + 1)
    ELSE 0

CommentEndAtOnce(s, p) == p

\* the loop of a line comment: next() until a newline is peeked or the end
RECURSIVE CommentEnd(_, _)
CommentEnd(s, p) ==
    IF p < Len(s) /\ s[p + 1] # "\n" THEN CommentEnd(s, p + 1) ELSE p

NewlinesSeenNone(s, p, n) == 0

\* the closure of take_while is called on every character of the run and on
\* the first character that ends it: the newlines among those
NewlinesSeen(s, p, n) ==
    Cardinality({k \in (p + 1)..(p + n + 1) : k <= Len(s) /\ s[k] = "\n"})

(* ------------------------ slicing the script -------------------------- *)
\* byte offset of the character with index k (0-based), Len(s) included
ByteOffset(s, k) ==
    Cardinality({jb \in (1..k) \X (1..2) : jb[2] <= LenUtf8(s[jb[1]])})

IsCharBoundary(s, b) == \E k \in 0..Len(s) : ByteOffset(s, k) = b

CharAt(s, b) == CHOOSE k \in 0..Len(s) : ByteOffset(s, k) = b

\* &script[a..b] panics unless a <= b <= len and both are char boundaries
SliceOk(s, a, b) ==
    a <= b /\ b <= ByteOffset(s, Len(s))
        /\ IsCharBoundary(s, a) /\ IsCharBoundary(s, b)

\* &script[a..b], a and b being byte offsets
Slice(s, a, b) == SubSeq(s, CharAt(s, a) + 1, CharAt(s, b))

(* --------------------------- str::parse ------------------------------- *)
Dots(r) == Cardinality({k \in 1..Len(r) : r[k] = "."})

\* a run of digits and dots that starts with a digit parses as f32 exactly
\* when it has at most one dot
ParseOk(r) ==
    /\ Len(r) > 0
    /\ \A k \in 1..Len(r) : IsAsciiDigit(r[k]) \/ r[k] = "."
    /\ \E k \in 1..Len(r) : IsAsciiDigit(r[k])
    /\ Dots(r) <= 1

RECURSIVE StripLeadingZeros(_)
StripLeadingZeros(r) ==
    IF Len(r) > 1 /\ r[1] = "0" THEN StripLeadingZeros(Tail(r)) ELSE r

RECURSIVE StripTrailingZeros(_)
StripTrailingZeros(r) ==
    IF Len(r) > 0 /\ r[Len(r)] = "0"
    THEN StripTrailingZeros(SubSeq(r, 1, Len(r) - 1))
    ELSE r

DotAt(r) == IF Dots(r) = 0 THEN Len(r) + 1 ELSE CHOOSE k \in 1..Len(r) : r[k] = "."

IntPart(r) ==
    LET d == SubSeq(r, 1, DotAt(r) - 1)
    IN  StripLeadingZeros(IF d = <<>> THEN <<"0">> ELSE d)

FracPart(r) == StripTrailingZeros(SubSeq(r, DotAt(r) + 1, Len(r)))

\* the value of a parsed literal, as its shortest decimal numeral: literals
\* of up to six significant digits denote different f32 values exactly when
\* their numerals differ
ParseF32(r) ==
    IF FracPart(r) = <<>> THEN IntPart(r) ELSE IntPart(r) \o <<".">> \o FracPart(r)

(* ----------------------- the branches of the match -------------------- *)
\* the locals of tokenize: a record st of pos, line, tokens, pc, err
PanicContinue(st, p, l, e) == [st EXCEPT !.pos = p, !.line = l, !.err = e]

Panic(st, p, l, e) == [st EXCEPT !.pos = p, !.line = l, !.pc = "panic", !.err = e]

Emit(s, st, p, l, t) ==
    [st EXCEPT !.pos = IterNext(s, p), !.line = l, !.tokens = Append(@, t)]

Skip(s, st, p, l) == [st EXCEPT !.pos = IterNext(s, p), !.line = l]

\* ( ) { } , ; . - + *
PunctBranch(s, st) ==
    Emit(s, st, st.pos, st.line, Tok(PunctToken(s[st.pos + 1])))

\* `!`: the peeked `=` is left to the trailing next()
BangBranch(s, st) ==
    LET p == st.pos + 1
    IN  IF p >= Len(s) THEN Panic(st, p, st.line, "Unimplemented")
        ELSE IF s[p + 1] = "="
             THEN Emit(s, st, p, st.line, Tok(TwoCharToken("!")))
             ELSE Emit(s, st, p, st.line, Tok(OneCharToken("!")))

\* `=`, `>`, `<`: the peeked `=` is consumed before the trailing next()
OpBranch(s, st) ==
    LET c == s[st.pos + 1]
        p == st.pos + 1
    IN  IF p >= Len(s) THEN Panic(st, p, st.line, "Unimplemented")
        ELSE IF s[p + 1] = "="
             THEN Emit(s, st, p + 1, st.line, Tok(TwoCharToken(c)))
             ELSE Emit(s, st, p, st.line, Tok(OneCharToken(c)))

\* `/`: a second `/` starts a comment that runs up to the next newline
SlashBranch(s, st) ==
    LET p == st.pos + 1
    IN  IF p >= Len(s) THEN Panic(st, p, st.line, "Unimplemented")
        ELSE IF s[p + 1] = "/"
             THEN Skip(s, st, CommentEnd(s, p), st.line)
             ELSE Emit(s, st, p, st.line, Tok("Slash"))

StringBranchLenient(s, st) ==
    LET p == st.pos + 1
        chars == StringRunLen(s, p)
        l == st.line + NewlinesSeen(s, p, chars)
    IN  Emit(s, st, p + chars, l, TokString(SubSeq(s, p + 1, p + chars)))

\* `"`: the literal runs up to the next `"`
StringBranch(s, st) ==
    LET i == st.pos
        p == st.pos + 1
        chars == StringRunLen(s, p)
        l == st.line + NewlinesSeen(s, p, chars)
        q == p + chars
    IN  IF q >= Len(s) THEN Panic(st, q, l, "MissingClosingQuote")
        ELSE IF ~SliceOk(s, i + 1, i + 1 + chars) THEN Panic(st, q, l, "SliceIndex")
        ELSE Emit(s, st, q, l, TokString(Slice(s, i + 1, i + 1 + chars)))

\* space, carriage return, tab
BlankBranch(s, st) == Skip(s, st, st.pos, st.line)

\* newline
NewlineBranch(s, st) == Skip(s, st, st.pos, st.line + 1)

\* an ASCII digit: the literal is the run of digits and dots
NumberBranch(s, st) ==
    LET i == st.pos
        n == NumberRunLen(s, i)
        l == st.line + NewlinesSeen(s, i, n)
        q == i + n
    IN  IF ~SliceOk(s, i, i + n) THEN Panic(st, q, l, "SliceIndex")
        ELSE IF ~ParseOk(Slice(s, i, i + n)) THEN Panic(st, q, l, "UnexpectedNumberLiteral")
        ELSE Emit(s, st, q, l, TokNumber(ParseF32(Slice(s, i, i + n))))

OtherBranchIdentifier(s, st) == Emit(s, st, st.pos, st.line, Tok("Identifier"))

\* any other character
OtherBranch(s, st) == Panic(st, st.pos, st.line, "UnexpectedToken")

FinishNoEof(st) == [st EXCEPT !.pc = "done"]

\* the end of the loop: push Eof and return
Finish(st) == [st EXCEPT !.tokens = Append(@, Tok("Eof")), !.pc = "done"]

IsOther(c) ==
    /\ c \notin PunctChars \cup OpChars \cup BlankChars \cup {"/", "\"", "\n"}
    /\ ~IsAsciiDigit(c)

\* one iteration of the while loop of tokenize, or its exit
Step(s, st) ==
    IF st.pos >= Len(s) THEN Finish(st)
    ELSE LET c == s[st.pos + 1]
         IN  CASE c \in PunctChars -> PunctBranch(s, st)
               [] c = "!" -> BangBranch(s, st)
               [] c \in {"=", ">", "<"} -> OpBranch(s, st)
               [] c = "/" -> SlashBranch(s, st)
               [] c = "\"" -> StringBranch(s, st)
               [] c \in BlankChars -> BlankBranch(s, st)
               [] c = "\n" -> NewlineBranch(s, st)
               [] IsAsciiDigit(c) -> NumberBranch(s, st)
               [] OTHER -> OtherBranch(s, st)

InitSt == [pos |-> 0, line |-> 0, tokens |-> <<>>, pc |-> "scan", err |-> "none"]

\* Tokenizer::new(s).tokenize(), run to its return or its panic
RECURSIVE Run(_, _)
Run(s, st) == IF st.pc # "scan" THEN st ELSE Run(s, Step(s, st))

Tokenize(s) == Run(s, InitSt)

(* ------------------------------ scripts ------------------------------- *)
RECURSIVE SeqsUpTo(_, _)
SeqsUpTo(S, n) ==
    IF n = 0 THEN {<<>>}
    ELSE LET shorter == SeqsUpTo(S, n - 1)
         IN  shorter \cup {Append(x, c) : x \in shorter, c \in S}

\* the script of test::tokenize
RepoTestScript ==
    <<"/", "/", " ", "C", "o", "m", "m", "e", "n", "t", " ", "t", "e", "s",
      "t", "\n", "(", "(", " ", ")", ")", "{", "}", " ", " ", " ", " ",
      " ", " ", " ", " ", " ", " ", " ", " ", " ", " ", " ", " ", " ", " ",
      " ", " ", " ", "/", "/", " ", "G", "r", "o", "u", "p", "i", "n", "g",
      "\n", "!", " ", "*", " ", "+", " ", "-", " ", "/", " ", "=", " ",
      "<", " ", ">", " ", "=", "=", " ", "<", "=", " ", ">", "=", " ", "!",
      "=", " ", "/", "/", " ", "O", "p", "e", "r", "a", "t", "o", "r", "s",
      "\n", "\"", "H", "e", "l", "l", "o", " ", "W", "o", "r", "l", "d",
      "!", "\"", " ", " ", " ", " ", " ", " ", " ", " ", " ", " ", " ",
      " ", " ", " ", "/", "/", " ", "S", "t", "r", "i", "n", "g", "\n",
      "1", "2", "3", "4", " ", " ", " ", " ", " ", " ", " ", " ", " ", " ",
      " ", " ", " ", " ", " ", " ", " ", " ", " ", " ", " ", " ", " ", " ",
      "/", "/", " ", "N", "u", "m", "b", "e", "r", "\n", "1", "2", ".",
      "3", "4", " ", " ", " ", " ", " ", " ", " ", " ", " ", " ", " ", " ",
      " ", " ", " ", " ", " ", " ", " ", " ", " ", " ", " ", "/", "/", " ",
      "N", "u", "m", "b", "e", "r">>

\* the operators, separated by single spaces
OperatorScript ==
    <<"!", " ", "!", "=", " ", "=", " ", "=", "=", " ", ">", " ", ">", "=",
      " ", "<", " ", "<", "=">>

\* grouping characters
GroupingScript ==
    <<"(", "(", " ", ")", ")", "{", "}">>

\* every single-character punctuation, with blanks
AllPunctScript ==
    <<"(", " ", ")", " ", "{", "\t", "}", ",", ";", "\r", ".", "-", "\n",
      "+", "*">>

\* blanks, newlines and a comment
BlankScript ==
    <<" ", " ", " ", "\n", "\t", "/", "/", " ", "c", "o", "m", "m", "e",
      "n", "t", "\n">>

\* a string literal
HelloScript ==
    <<"\"", "H", "e", "l", "l", "o", " ", "W", "o", "r", "l", "d", "!",
      "\"">>

\* a string literal over two lines, then a token
MultiLineScript ==
    <<"\"", "a", "\n", "b", "\"", " ", ";">>

\* a token, then a string literal over three lines that is never closed
UnterminatedScript ==
    <<";", "\"", "a", "\n", "b", "\n">>

\* a token, a run with two dots, and more after it
ErrorMidScript ==
    <<";", " ", "1", ".", "2", ".", "3", " ", ";">>

\* a token, a letter, and more after it
LetterMidScript ==
    <<"(", " ", "a", " ", ")">>

\* an integer literal
IntegerScript ==
    <<"1", "2", "3", "4">>

\* a literal with a fraction
DecimalScript ==
    <<"1", "2", ".", "3", "4">>

\* a run with two dots
TwoDotScript ==
    <<"1", ".", "2", ".", "3">>

\* a number after a comment that holds a two-byte character
WideCommentScript ==
    <<"/", "/", "U+00E9", "\n", "1">>

\* a number after a string that holds a two-byte character
WideStringScript ==
    <<"\"", "U+00E9", "a", "\"", "1">>

TestScripts ==
    {RepoTestScript,
     OperatorScript,
     GroupingScript,
     AllPunctScript,
     BlankScript,
     HelloScript,
     MultiLineScript,
     UnterminatedScript,
     ErrorMidScript,
     LetterMidScript,
     IntegerScript,
     DecimalScript,
     TwoDotScript,
     WideCommentScript,
     WideStringScript}

Scripts ==
    SeqsUpTo(CoreAlphabet, MaxLen) \cup SeqsUpTo(Alphabet, MaxFullLen) \cup TestScripts

(* --------------------------- the state machine ------------------------ *)
State == [pos |-> pos, line |-> line, tokens |-> tokens, pc |-> pc, err |-> err]

Apply(st) ==
    /\ pos' = st.pos
    /\ line' = st.line
    /\ tokens' = st.tokens
    /\ pc' = st.pc
    /\ err' = st.err
    /\ ret' = IF st.pc = "done" THEN st.tokens ELSE ret
    /\ UNCHANGED script

Cur == script[pos + 1]

Scanning == pc = "scan" /\ pos < Len(script)

Init ==
    /\ script \in Scripts
    /\ pos = 0
    /\ line = 0
    /\ tokens = <<>>
    /\ pc = "scan"
    /\ err = "none"
    /\ ret = <<>>

ScanPunct == Scanning /\ Cur \in PunctChars /\ Apply(PunctBranch(script, State))

ScanBang == Scanning /\ Cur = "!" /\ Apply(BangBranch(script, State))

ScanOp == Scanning /\ Cur \in {"=", ">", "<"} /\ Apply(OpBranch(script, State))

ScanSlash == Scanning /\ Cur = "/" /\ Apply(SlashBranch(script, State))

ScanString == Scanning /\ Cur = "\"" /\ Apply(StringBranch(script, State))

ScanBlank == Scanning /\ Cur \in BlankChars /\ Apply(BlankBranch(script, State))

ScanNewline == Scanning /\ Cur = "\n" /\ Apply(NewlineBranch(script, State))

ScanNumber == Scanning /\ IsAsciiDigit(Cur) /\ Apply(NumberBranch(script, State))

ScanOther == Scanning /\ IsOther(Cur) /\ Apply(OtherBranch(script, State))

Return == pc = "scan" /\ pos >= Len(script) /\ Apply(Finish(State))

Next ==
    \/ ScanPunct
    \/ ScanBang
    \/ ScanOp
    \/ ScanSlash
    \/ ScanString
    \/ ScanBlank
    \/ ScanNewline
    \/ ScanNumber
    \/ ScanOther
    \/ Return

Spec == Init /\ [][Next]_vars

\* the scripts of the scans that are followed to their end
LiveScripts ==
    SeqsUpTo(CoreAlphabet, MaxLiveLen) \cup (TestScripts \ {RepoTestScript})

LiveInit ==
    /\ script \in LiveScripts
    /\ pos = 0
    /\ line = 0
    /\ tokens = <<>>
    /\ pc = "scan"
    /\ err = "none"
    /\ ret = <<>>

\* tokenize runs on one thread without waiting: it takes its next step
FairSpec == LiveInit /\ [][Next]_vars /\ WF_vars(Next)

TypeOK ==
    /\ pos \in 0..Len(script)
    /\ line \in 0..Len(script)
    /\ pc \in {"scan", "done", "panic"}
    /\ \A k \in 1..Len(tokens) : tokens[k].type \in TokenTypes

(* ---------------------- the lexical structure ------------------------- *)
\* where the first k characters of s leave a reader of the language: in
\* code, inside a string literal, or inside a line comment
RECURSIVE ModeAfter(_, _)
ModeAfter(s, k) ==
    IF k = 0 THEN "code"
    ELSE LET m == ModeAfter(s, k - 1)
             c == s[k]
         IN  CASE m = "code" ->
                    IF c = "\"" THEN "string"
                    ELSE IF c = "/" /\ k < Len(s) /\ s[k + 1] = "/" THEN "comment"
                    ELSE "code"
               [] m = "string" -> IF c = "\"" THEN "code" ELSE "string"
               [] m = "comment" -> IF c = "\n" THEN "code" ELSE "comment"

\* character k of s is outside every string literal and every comment
Outside(s, k) == ModeAfter(s, k - 1) = "code" /\ ModeAfter(s, k) = "code"

\* from character p + 1 on, s holds only blanks, newlines and line comments
RECURSIVE OnlyBlanksAndComments(_, _)
OnlyBlanksAndComments(s, p) ==
    IF p >= Len(s) THEN TRUE
    ELSE IF s[p + 1] \in {" ", "\r", "\t", "\n"} THEN OnlyBlanksAndComments(s, p + 1)
    ELSE IF s[p + 1] = "/" /\ p + 1 < Len(s) /\ s[p + 2] = "/"
         THEN LET nl == {k \in (p + 3)..Len(s) : s[k] = "\n"}
              IN  IF nl = {} THEN TRUE
                  ELSE OnlyBlanksAndComments(s, CHOOSE k \in nl : \A j \in nl : k <= j)
    ELSE FALSE

Types(ts) == [k \in 1..Len(ts) |-> ts[k].type]

(* ------------------------------ claims -------------------------------- *)

\* C1: a scan that returns returns a sequence whose last element is Eof,
\* Eof occurs exactly once in it, and no iteration of the loop emits Eof.
C1_EofOnceAndLast ==
    /\ pc = "done" =>
          /\ Len(ret) >= 1
          /\ ret[Len(ret)].type = "Eof"
          /\ Cardinality({k \in 1..Len(ret) : ret[k].type = "Eof"}) = 1
    /\ pc = "scan" => \A k \in 1..Len(tokens) : tokens[k].type # "Eof"

C1_Witness ==
    /\ pc = "done"
    /\ Len(ret) >= 3
    /\ ret[Len(ret)].type = "Eof"

\* C2: an iteration that starts on `!`, `=`, `>` or `<` with a character x
\* after it emits the two-character token exactly when x is `=` and the
\* one-character token otherwise; the eight operators separated by single
\* spaces are returned in source order, followed by Eof.
C2_OperatorVariant ==
    /\ [][(Scanning /\ Cur \in OpChars /\ pos + 1 < Len(script)) =>
             LET two == [c \in OpChars |->
                            CASE c = "!" -> "BangEqual" [] c = "=" -> "EqualEqual"
                              [] c = ">" -> "GreaterEqual" [] c = "<" -> "LessEqual"]
                 one == [c \in OpChars |->
                            CASE c = "!" -> "Bang" [] c = "=" -> "Equal"
                              [] c = ">" -> "Greater" [] c = "<" -> "Less"]
             IN  /\ pc' = "scan"
                 /\ tokens' = Append(tokens,
                       Tok(IF script[pos + 2] = "=" THEN two[Cur] ELSE one[Cur]))]_vars
    /\ []((script = OperatorScript /\ pc # "scan") =>
             /\ pc = "done"
             /\ Types(ret) = <<"Bang", "BangEqual", "Equal", "EqualEqual", "Greater",
                               "GreaterEqual", "Less", "LessEqual", "Eof">>)

C2_Witness ==
    /\ script = OperatorScript
    /\ pc = "done"
    /\ Len(ret) = 9
    /\ ret[2].type = "BangEqual"

\* C3 (as claimed): for an operator o of `!`, `=`, `>`, `<` and a
\* single-character punctuation p, scanning the two characters o p returns
\* the one-character token of o, the token of p, then Eof.
C3_OperatorKeepsNext ==
    \A o \in OpChars, p \in PunctChars :
        (script = <<o, p>> /\ pc # "scan") =>
            /\ pc = "done"
            /\ Types(ret) = <<OneCharToken(o), PunctToken(p), "Eof">>

\* C4: a script of single-character punctuation, blanks and newlines only
\* returns one token per punctuation character, of its variant, in source
\* order, followed by Eof.
C4_PunctuationOnly ==
    (\A k \in 1..Len(script) : script[k] \in PunctChars \cup {" ", "\r", "\t", "\n"}) =>
        LET name == [c \in PunctChars |->
                        CASE c = "(" -> "LeftParen" [] c = ")" -> "RightParen"
                          [] c = "{" -> "LeftBrace" [] c = "}" -> "RightBrace"
                          [] c = "," -> "Comma" [] c = ";" -> "Semicolon"
                          [] c = "." -> "Dot" [] c = "-" -> "Minus"
                          [] c = "+" -> "Plus" [] c = "*" -> "Star"]
            IsPunct(c) == c \in PunctChars
            ps == SelectSeq(script, IsPunct)
        IN  /\ pc # "panic"
            /\ pc = "done" =>
                  ret = [k \in 1..Len(ps) |-> Tok(name[ps[k]])] \o <<Tok("Eof")>>

C4_Witness ==
    /\ script = AllPunctScript
    /\ pc = "done"
    /\ Types(ret) = <<"LeftParen", "RightParen", "LeftBrace", "RightBrace", "Comma",
                      "Semicolon", "Dot", "Minus", "Plus", "Star", "Eof">>

\* C5: a script of blanks, newlines and line comments only, the empty
\* script included, returns the sequence that holds only Eof.
C5_BlankInput ==
    OnlyBlanksAndComments(script, 0) =>
        /\ pc # "panic"
        /\ tokens \in {<<>>, <<Tok("Eof")>>}
        /\ pc = "done" => ret = <<Tok("Eof")>>

C5_Witness ==
    /\ script = BlankScript
    /\ pc = "done"
    /\ ret = <<Tok("Eof")>>

\* the script with a line comment of the given body put after its first k
\* characters
WithComment(s, k, body) ==
    SubSeq(s, 1, k) \o <<"/", "/">> \o body \o SubSeq(s, k + 1, Len(s))

CommentBodies == {<<>>, <<"a">>, <<"(", " ">>}

\* C6 (as claimed): putting a line comment right before a newline or at
\* the end of the input, outside every string literal, leaves the returned
\* token sequence unchanged, also right after a token.
C6_CommentTransparent ==
    pc = "done" =>
        \A k \in 0..Len(script) :
            ((k = Len(script) \/ script[k + 1] = "\n") /\ ModeAfter(script, k) # "string") =>
                \A body \in CommentBodies :
                    LET r == Tokenize(WithComment(script, k, body))
                    IN  r.pc = "done" /\ r.tokens = ret

\* C7 (as claimed): an iteration that starts on a `"` that has a closing
\* `"` after it emits one String token whose payload is the text between
\* the two, and leaves the cursor right after the closing quote.
C7_StringPayload ==
    [][(Scanning /\ Cur = "\"" /\ \E k \in (pos + 2)..Len(script) : script[k] = "\"") =>
          LET close == CHOOSE k \in (pos + 2)..Len(script) :
                          /\ script[k] = "\""
                          /\ \A j \in (pos + 2)..(k - 1) : script[j] # "\""
          IN  /\ pc' = "scan"
              /\ tokens' = Append(tokens, TokString(SubSeq(script, pos + 2, close - 1)))
              /\ pos' = close]_vars

\* C8 (as claimed): an iteration that starts on an ASCII digit takes the
\* maximal run r of digits and dots from there; it emits Number(v) when r
\* parses as v and fails with the number-literal error when r does not.
C8_NumberRun ==
    [][(Scanning /\ IsAsciiDigit(Cur)) =>
          LET last == CHOOSE k \in (pos + 1)..Len(script) :
                         /\ \A j \in (pos + 1)..k : script[j] \in DigitChars \cup {"."}
                         /\ k < Len(script) => script[k + 1] \notin DigitChars \cup {"."}
              r == SubSeq(script, pos + 1, last)
          IN  IF ParseOk(r)
              THEN pc' = "scan" /\ tokens' = Append(tokens, TokNumber(ParseF32(r)))
              ELSE pc' = "panic" /\ err' = "UnexpectedNumberLiteral"]_vars

\* C9 (as claimed): a script that has, outside every string literal and
\* comment, a character that is no blank, newline, punctuation, operator,
\* `"` or digit never returns a token sequence.
C9_UnexpectedCharacter ==
    pc = "done" =>
        ~\E k \in 1..Len(script) : IsOther(script[k]) /\ Outside(script, k)

\* C10: an iteration that starts on a `"` with no `"` after it fails with
\* the missing-closing-quote error and emits nothing; a scan that failed
\* returns no token sequence.
C10_UnterminatedString ==
    /\ [][(Scanning /\ Cur = "\"" /\ \A k \in (pos + 2)..Len(script) : script[k] # "\"") =>
             /\ pc' = "panic"
             /\ err' = "MissingClosingQuote"
             /\ tokens' = tokens
             /\ ret' = <<>>]_vars
    /\ [](pc = "panic" => ret = <<>>)

C10_Witness ==
    /\ pc = "panic"
    /\ err = "MissingClosingQuote"
    /\ Len(tokens) >= 1
    /\ \A k \in 1..Len(tokens) : tokens[k].type # "String"

\* C11: an iteration that starts on a `"` adds to line the number of
\* newlines between that quote and the closing quote, or the end of the
\* script when there is none; the error of an unclosed literal is raised
\* with line already increased.
C11_StringNewlines ==
    [][(Scanning /\ Cur = "\"") =>
          LET quotes == {k \in (pos + 2)..Len(script) : script[k] = "\""}
              stop == IF quotes = {} THEN Len(script) + 1
                      ELSE CHOOSE k \in quotes : \A j \in quotes : k <= j
              inside == {k \in (pos + 2)..(stop - 1) : script[k] = "\n"}
          IN  /\ line' = line + Cardinality(inside)
              /\ quotes = {} => (pc' = "panic" /\ err' = "MissingClosingQuote")]_vars

C11_Witness ==
    /\ script = UnterminatedScript
    /\ pc = "panic"
    /\ err = "MissingClosingQuote"
    /\ line = 2

\* C12 (as claimed): for each of `!`, `=`, `>`, `<` and a single-character
\* punctuation p, scanning the operator, `=` and p returns the
\* two-character token, the token of p, then Eof.
C12_TwoCharKeepsNext ==
    \A o \in OpChars, p \in PunctChars :
        (script = <<o, "=", p>> /\ pc # "scan") =>
            /\ pc = "done"
            /\ Types(ret) = <<TwoCharToken(o), PunctToken(p), "Eof">>

\* C13 (as claimed): a digit directly followed by a punctuation character
\* other than `.` returns the Number token, the token of that character,
\* then Eof.
C13_NumberKeepsNext ==
    \A d \in DigitChars, p \in PunctChars \ {"."} :
        (script = <<d, p>> /\ pc # "scan") =>
            /\ pc = "done"
            /\ Types(ret) = <<"Number", PunctToken(p), "Eof">>

\* C14 (as claimed): an iteration that starts on `!`, `=`, `>`, `<` or `/`
\* as the last character of the script emits the one-character token and
\* does not fail.
C14_OperatorAtEnd ==
    [][(Scanning /\ Cur \in OpChars \cup {"/"} /\ pos + 1 = Len(script)) =>
          /\ pc' = "scan"
          /\ tokens' = Append(tokens, Tok(IF Cur = "/" THEN "Slash" ELSE OneCharToken(Cur)))]_vars

\* C15 (as claimed): in every state of a scan, line is the number of
\* newlines among the characters the cursor has moved past; for a failed
\* scan the cursor is where the error was detected.
C15_LineCountsNewlines ==
    line = Cardinality({k \in 1..pos : script[k] = "\n"})

\* C16: once the scan has raised one of its three errors it has stopped:
\* nothing is returned, Eof is not among the tokens, the cursor and the
\* tokens never change again, and the iteration that raised the error
\* emitted no token.
C16_FatalEndsScan ==
    /\ [](err \in {"MissingClosingQuote", "UnexpectedNumberLiteral", "UnexpectedToken"} =>
             /\ pc = "panic"
             /\ ret = <<>>
             /\ \A k \in 1..Len(tokens) : tokens[k].type # "Eof")
    /\ [][err # "none" => UNCHANGED <<pos, line, tokens, ret, pc, err>>]_vars
    /\ [][(err = "none" /\ err' # "none") => (tokens' = tokens /\ ret' = <<>>)]_vars

C16_Witness ==
    /\ script = ErrorMidScript
    /\ pc = "panic"
    /\ err = "UnexpectedNumberLiteral"
    /\ Types(tokens) = <<"Semicolon">>
    /\ pos < Len(script)
    /\ ret = <<>>

\* the ASCII letters and the underscore
IdentifierStart ==
    {"a", "b", "c", "d", "e", "f", "g", "h", "i", "j", "k", "l", "m", "n", "o",
     "p", "q", "r", "s", "t", "u", "v", "w", "x", "y", "z",
     "A", "B", "C", "D", "E", "F", "G", "H", "I", "J", "K", "L", "M", "N", "O",
     "P", "Q", "R", "S", "T", "U", "V", "W", "X", "Y", "Z", "_"}

\* C17: no token of a scan is Identifier or one of the sixteen keywords;
\* an iteration that starts on an ASCII letter or an underscore fails with
\* the unexpected-character error and emits nothing.
C17_NoIdentifierOrKeyword ==
    /\ [](\A k \in 1..Len(tokens) :
              tokens[k].type \notin
                  {"Identifier", "And", "Class", "Else", "False", "Fun", "For", "If",
                   "Nil", "Or", "Print", "Return", "Super", "This", "True", "Var",
                   "While"})
    /\ [][(Scanning /\ Cur \in IdentifierStart) =>
             /\ pc' = "panic"
             /\ err' = "UnexpectedToken"
             /\ tokens' = tokens]_vars

C17_Witness ==
    /\ script = LetterMidScript
    /\ pc = "panic"
    /\ err = "UnexpectedToken"
    /\ pos = 2
    /\ Types(tokens) = <<"LeftParen">>

\* C18: every scan ends, by returning or by failing; an iteration that
\* does not end the scan moves the cursor forward by at least one
\* character, and the cursor never passes the end of the script.
C18_Terminates ==
    /\ <>(pc \in {"done", "panic"})
    /\ [][(pc = "scan" /\ pc' = "scan") => (pos' > pos /\ pos' <= Len(script))]_vars

C18_Witness ==
    /\ script = BlankScript
    /\ pc = "done"
    /\ pos = Len(script)
    /\ line = 1

\* C19 (as claimed): whatever characters the script holds, a closed string
\* literal is emitted with the text between its quotes as payload, and a
\* run of digits and dots that parses is emitted with its own value.
C19_PayloadIsLiteral ==
    /\ [][(Scanning /\ Cur = "\"" /\ \E k \in (pos + 2)..Len(script) : script[k] = "\"") =>
             LET n == StringRunLen(script, pos + 1)
             IN  /\ Len(tokens') = Len(tokens) + 1
                 /\ tokens'[Len(tokens')] = TokString(SubSeq(script, pos + 2, pos + 1 + n))]_vars
    /\ [][(Scanning /\ IsAsciiDigit(Cur)
             /\ ParseOk(SubSeq(script, pos + 1, pos + NumberRunLen(script, pos)))) =>
             LET r == SubSeq(script, pos + 1, pos + NumberRunLen(script, pos))
             IN  /\ Len(tokens') = Len(tokens) + 1
                 /\ tokens'[Len(tokens')] = TokNumber(ParseF32(r))]_vars
=============================================================================
